---- MODULE Spec2Model ----
(***************************************************************************)
(* Model of app.py (Investment Tracker): the run block that loads monthly  *)
(* prices, simulates a fixed monthly purchase per ticker, merges the       *)
(* results into combined_df, forward-fills it and derives the metrics.     *)
(*                                                                         *)
(* Dates are month numbers.  A cell of a pandas Series/DataFrame is the    *)
(* empty tuple (NaN) or a one-element tuple <<v>>.  Share counts and       *)
(* portfolio values are exact rationals kept as integers in units of       *)
(* 1/Scale, Scale being a common multiple of every price magnitude, so     *)
(* monthly_inv / price has no remainder.                                   *)
(***************************************************************************)
EXTENDS Integers, Sequences, FiniteSets, TLC

\* ---- bounds of the model ------------------------------------------------
MaxTickers == 3
MaxPrice == 2
MaxContribution == 2

\* Months the date inputs range over.
Dates == {1, 2, 3}

NamePool == <<"A", "B", "C", "D", "E">>
TI == "Total Invested"

NaN == <<>>
Num(v) == <<v>>
IsNaN(x) == x = <<>>

RECURSIVE Factorial(_)
Factorial(n) == IF n <= 1 THEN 1 ELSE n * Factorial(n - 1)

Scale == Factorial(MaxPrice)

\* Adj Close values the provider may report: missing, negative, zero, positive.
Cells == {NaN, Num(0 - 1), Num(0), Num(MaxPrice)}

\* Values number_input can return (no min_value is set): negative, 0, positive.
Contributions == {0 - 1, 0, MaxContribution}

Range(s) == {s[k] : k \in DOMAIN s}

Last(s) == s[Len(s)]

VARIABLES
    selected_tickers,     \* ordered names (dict insertion order), unique symbols
    MONTHLY_INVESTMENT,
    START_DATE,
    END_DATE,
    market,               \* what the price provider holds: name -> month -> cell
    data,                 \* monthly_data returned by load_data
    pc,                   \* "start" | "loop" | "done"
    i,                    \* position of the for loop over selected_tickers
    df,                   \* result of the last calculate_portfolio call
    lastSym,              \* ticker df was computed for ("" before the first)
    combined_df,
    warnings,             \* names reported by st.warning at line 222
    status,               \* message shown when the run ended
    final_invested,
    metrics,              \* name -> [final_value, return_pct] shown by cols[].metric
    loads,                \* number of load_data calls
    purchases             \* number of executions of lines 188-190

vars == <<selected_tickers, MONTHLY_INVESTMENT, START_DATE, END_DATE, market,
          data, pc, i, df, lastSym, combined_df, warnings, status,
          final_invested, metrics, loads, purchases>>

config == <<selected_tickers, MONTHLY_INVESTMENT, START_DATE, END_DATE, market>>

\* ---- pandas frames ------------------------------------------------------
\* pd.DataFrame(): no rows, no columns.
EmptyFrame == [index |-> <<>>, columns |-> <<>>, col |-> <<>>]

\* DataFrame.empty: any axis of length 0.
FrameEmpty(f) == Len(f.index) = 0 \/ Len(f.columns) = 0

\* ---- load_data ----------------------------------------------------------
\* Months of [start, end) (yf.download: start inclusive, end exclusive).
MonthsInRange(start, end) == start..(end - 1)

HasPrice(mkt, names, m) == \E n \in names : ~IsNaN(mkt[n][m])

RECURSIVE SeqFromTo(_, _)
SeqFromTo(a, b) == IF a > b THEN <<>> ELSE <<a>> \o SeqFromTo(a + 1, b)

\* resample('MS').first(): one row per month from the first to the last month
\* that has a downloaded row; a cell is the month's first valid price or NaN.
\* blank: the provider returned rows even though no price in them is valid.
load_data(ticker_dict, start, end, mkt, blank) ==
    LET names == Range(ticker_dict)
        months == MonthsInRange(start, end)
        rows == {m \in months : blank \/ HasPrice(mkt, names, m)}
    IN  IF ticker_dict = <<>> \/ rows = {}
        THEN EmptyFrame
        ELSE LET lo == CHOOSE m \in rows : \A o \in rows : m <= o
                 hi == CHOOSE m \in rows : \A o \in rows : m >= o
             IN  [index |-> SeqFromTo(lo, hi),
                  columns |-> ticker_dict,
                  col |-> [n \in names |-> [m \in lo..hi |-> mkt[n][m]]]]

\* ---- calculate_portfolio ------------------------------------------------
\* data[ticker_symbol].dropna(): the dates whose cell is not NaN, in order.
DropNa(f, sym) == SelectSeq(f.index, LAMBDA d : ~IsNaN(f.col[sym][d]))

\* The for loop of lines 186-197.  price is a Python float and monthly_inv a
\* Python int, so a price of 0 raises ZeroDivisionError at line 188.
RECURSIVE SimLoop(_, _, _, _, _, _)
SimLoop(dates, price, monthly_inv, shares_owned, total_invested, rows) ==
    IF dates = <<>>
    THEN [raised |-> FALSE, rows |-> rows]
    ELSE LET date == Head(dates)
             p == price[date][1]
         IN  IF p = 0
             THEN [raised |-> TRUE, rows |-> rows]
             ELSE LET shares_bought == (monthly_inv * Scale) \div p
                      owned == shares_owned + shares_bought
                      invested == total_invested + monthly_inv
                      current_value == owned * p
                  IN  SimLoop(Tail(dates), price, monthly_inv, owned, invested,
                              Append(rows, [Date |-> date,
                                            TotalInvested |-> invested,
                                            PortfolioValue |-> current_value]))

calculate_portfolio(f, ticker_symbol, monthly_inv) ==
    IF ticker_symbol \notin Range(f.columns)
    THEN [raised |-> FALSE, rows |-> <<>>]
    ELSE SimLoop(DropNa(f, ticker_symbol), f.col[ticker_symbol], monthly_inv, 0, 0, <<>>)

\* ---- aggregation --------------------------------------------------------
RowDates(rows) == [k \in DOMAIN rows |-> rows[k].Date]

RowAt(rows, d) == rows[CHOOSE k \in DOMAIN rows : rows[k].Date = d]

\* df["Total Invested"] and df["Portfolio Value"]: Series indexed by Date.
InvestedSeries(rows) ==
    [index |-> RowDates(rows),
     val |-> [d \in Range(RowDates(rows)) |-> Num(RowAt(rows, d).TotalInvested)]]

ValueSeries(rows) ==
    [index |-> RowDates(rows),
     val |-> [d \in Range(RowDates(rows)) |-> Num(RowAt(rows, d).PortfolioValue)]]

\* Series.reindex: a date the Series lacks gets NaN, a date only it has is lost.
Reindex(val, own, index) ==
    [d \in Range(index) |-> IF d \in own THEN val[d] ELSE NaN]

RECURSIVE SortedSeq(_)
SortedSeq(S) ==
    IF S = {} THEN <<>>
    ELSE LET m == CHOOSE x \in S : \A y \in S : x <= y
         IN  <<m>> \o SortedSeq(S \ {m})

\* Column assignment as an outer join: the frame's index grows to the union.
SetColumnOuter(f, name, series) ==
    LET index == SortedSeq(Range(f.index) \cup Range(series.index))
    IN  [index |-> index,
         columns |-> IF name \in Range(f.columns) THEN f.columns
                     ELSE Append(f.columns, name),
         col |-> [n \in (DOMAIN f.col) \cup {name} |->
                    IF n = name THEN Reindex(series.val, Range(series.index), index)
                    ELSE Reindex(f.col[n], Range(f.index), index)]]

\* frame[name] = series: the Series is aligned on the frame's existing index.
SetColumn(f, name, series) ==
    [index |-> f.index,
     columns |-> IF name \in Range(f.columns) THEN f.columns ELSE Append(f.columns, name),
     col |-> [n \in (DOMAIN f.col) \cup {name} |->
                IF n = name THEN Reindex(series.val, Range(series.index), f.index)
                ELSE f.col[n]]]

\* The frame is initialised again for every ticker.
NeedsInitAlways(f) == TRUE

\* Line 226: the frame is initialised only while it is still empty.
NeedsInit(f) == FrameEmpty(f)

\* Lines 227-228.
InitCombined(rows) ==
    LET base == [index |-> RowDates(rows), columns |-> <<>>, col |-> <<>>]
    IN  SetColumn(base, TI, InvestedSeries(rows))

\* Line 228 moved out of the if: every ticker overwrites Total Invested.
AddTickerOverwrite(f, name, rows) ==
    LET g == IF NeedsInit(f) THEN InitCombined(rows) ELSE f
    IN  SetColumn(SetColumn(g, TI, InvestedSeries(rows)), name, ValueSeries(rows))

\* Lines 226-230 for one ticker with a non-empty result.
AddTicker(f, name, rows) ==
    LET g == IF NeedsInit(f) THEN InitCombined(rows) ELSE f
    IN  SetColumn(g, name, ValueSeries(rows))

\* A fill that also takes the first valid value below a leading gap.
FillCellBoth(column, index, k) ==
    LET valid == {j \in 1..k : ~IsNaN(column[index[j]])}
        below == {j \in k..Len(index) : ~IsNaN(column[index[j]])}
    IN  IF valid # {}
        THEN column[index[CHOOSE j \in valid : \A o \in valid : o <= j]]
        ELSE IF below # {}
             THEN column[index[CHOOSE j \in below : \A o \in below : j <= o]]
             ELSE NaN

\* DataFrame.ffill(): each NaN takes the last valid value above it in its column.
FillCell(column, index, k) ==
    LET valid == {j \in 1..k : ~IsNaN(column[index[j]])}
    IN  IF valid = {} THEN NaN
        ELSE column[index[CHOOSE j \in valid : \A o \in valid : o <= j]]

ffill(f) ==
    [f EXCEPT !.col = [n \in DOMAIN f.col |->
        [d \in Range(f.index) |->
            FillCell(f.col[n], f.index, CHOOSE k \in DOMAIN f.index : f.index[k] = d)]]]

\* ---- metrics ------------------------------------------------------------
\* Line 246.
valid_tickers(sel, f) == SelectSeq(sel, LAMBDA n : n \in Range(f.columns))

\* Line 256 on numpy scalars: a zero divisor gives nan or inf, no exception.
\* A finite result is the fraction num/den (in percent).
return_pct(final_value, invested) ==
    IF IsNaN(final_value) THEN [kind |-> "nan", num |-> 0, den |-> 1]
    ELSE IF invested = 0
         THEN IF final_value[1] = 0
              THEN [kind |-> "nan", num |-> 0, den |-> 1]
              ELSE [kind |-> "inf", num |-> 0, den |-> 1]
         ELSE [kind |-> "num",
               num |-> (final_value[1] - invested * Scale) * 100,
               den |-> invested * Scale]

Metrics(sel, f) ==
    LET fi == f.col[TI][Last(f.index)][1]
        names == Range(valid_tickers(sel, f))
    IN  [n \in names |->
            [final_value |-> f.col[n][Last(f.index)],
             return_pct |-> return_pct(f.col[n][Last(f.index)], fi)]]

\* ---- the run ------------------------------------------------------------
Init ==
    /\ selected_tickers \in {SubSeq(NamePool, 1, k) : k \in 0..MaxTickers}
    /\ MONTHLY_INVESTMENT \in Contributions
    /\ START_DATE \in Dates
    /\ END_DATE \in Dates
    /\ market \in [Range(selected_tickers) ->
                      [MonthsInRange(START_DATE, END_DATE) -> Cells]]
    /\ data = EmptyFrame
    /\ pc = "start"
    /\ i = 0
    /\ df = <<>>
    /\ lastSym = ""
    /\ combined_df = EmptyFrame
    /\ warnings = {}
    /\ status = ""
    /\ final_invested = 0
    /\ metrics = <<>>
    /\ loads = 0
    /\ purchases = 0

\* The selection is never taken to be empty.
NoTickersNever(sel) == FALSE

\* Line 206.
NoTickers(sel) == sel = <<>>

\* Lines 206-207: nothing selected.
WarnNoSelection ==
    /\ pc = "start"
    /\ NoTickers(selected_tickers)
    /\ status' = "select_warning"
    /\ pc' = "done"
    /\ UNCHANGED <<config, data, i, df, lastSym, combined_df, warnings,
                   final_invested, metrics, loads, purchases>>

\* Lines 210-215.
LoadData ==
    /\ pc = "start"
    /\ ~NoTickers(selected_tickers)
    /\ \E blank \in BOOLEAN :
         data' = load_data(selected_tickers, START_DATE, END_DATE, market, blank)
    /\ loads' = loads + 1
    /\ IF FrameEmpty(data')
       THEN /\ status' = "no_data"
            /\ pc' = "done"
            /\ i' = i
       ELSE /\ status' = status
            /\ pc' = "loop"
            /\ i' = 1
    /\ combined_df' = EmptyFrame
    /\ UNCHANGED <<config, df, lastSym, warnings, final_invested, metrics, purchases>>

\* Lines 218-230: one iteration of the loop over selected_tickers.
ProcessTicker ==
    /\ pc = "loop"
    /\ i <= Len(selected_tickers)
    /\ LET name == selected_tickers[i]
           res == calculate_portfolio(data, name, MONTHLY_INVESTMENT)
       IN  /\ purchases' = purchases + Len(res.rows)
           /\ IF res.raised
              THEN \* caught at line 307
                   /\ status' = "exception"
                   /\ pc' = "done"
                   /\ UNCHANGED <<i, df, lastSym, combined_df, warnings>>
              ELSE /\ df' = res.rows
                   /\ lastSym' = name
                   /\ i' = i + 1
                   /\ UNCHANGED <<pc, status>>
                   /\ IF res.rows = <<>>
                      THEN /\ warnings' = warnings \cup {name}
                           /\ UNCHANGED combined_df
                      ELSE /\ combined_df' = AddTicker(combined_df, name, res.rows)
                           /\ UNCHANGED warnings
    /\ UNCHANGED <<config, data, final_invested, metrics, loads>>

\* Lines 232-263: after the loop.
Finish ==
    /\ pc = "loop"
    /\ i > Len(selected_tickers)
    /\ pc' = "done"
    /\ IF FrameEmpty(combined_df)
       THEN /\ status' = "no_values"
            /\ UNCHANGED <<combined_df, final_invested, metrics>>
       ELSE /\ combined_df' = ffill(combined_df)
            /\ final_invested' = combined_df'.col[TI][Last(combined_df'.index)][1]
            /\ metrics' = Metrics(selected_tickers, combined_df')
            /\ status' = "ok"
    /\ UNCHANGED <<config, data, i, df, lastSym, warnings, loads, purchases>>

Next == WarnNoSelection \/ LoadData \/ ProcessTicker \/ Finish

Spec == Init /\ [][Next]_vars

\* ---- properties ---------------------------------------------------------
\* The simulation result of a selected ticker on the loaded data.
Result(name) == calculate_portfolio(data, name, MONTHLY_INVESTMENT)

NonEmpty(name) == ~Result(name).raised /\ Result(name).rows # <<>>

IsEmpty(name) == ~Result(name).raised /\ Result(name).rows = <<>>

OwnDates(name) == Range(RowDates(Result(name).rows))

\* The first ticker of an order whose result is non-empty.
FirstNonEmpty(order) ==
    order[CHOOSE k \in DOMAIN order :
            /\ NonEmpty(order[k])
            /\ \A j \in 1..(k - 1) : ~NonEmpty(order[j])]

\* The loop of lines 218-230 followed by line 235, for a given order.
RECURSIVE AggLoop(_, _)
AggLoop(order, f) ==
    IF order = <<>> THEN f
    ELSE LET rows == Result(Head(order)).rows
         IN  IF rows = <<>>
             THEN AggLoop(Tail(order), f)
             ELSE AggLoop(Tail(order), AddTicker(f, Head(order), rows))

Aggregate(order) == ffill(AggLoop(order, EmptyFrame))

Perms(order) ==
    {p \in [DOMAIN order -> Range(order)] : Range(p) = Range(order)}

\* The run reached the metrics: combined_df is the aggregated portfolio.
Aggregated == pc = "done" /\ status = "ok"

Included == Range(combined_df.columns) \ {TI}

NumPositive(name) ==
    Cardinality({m \in DOMAIN market[name] :
                    ~IsNaN(market[name][m]) /\ market[name][m][1] > 0})

\* Every price the provider reports is strictly positive.
PositivePrices ==
    \A n \in DOMAIN market : \A m \in DOMAIN market[n] :
        IsNaN(market[n][m]) \/ market[n][m][1] > 0

\* C1 (as claimed): the axis of the aggregated portfolio is the chronological
\* union of the timestamps of all non-empty results (stated for the runs with
\* a positive contribution and positive prices, where it already fails).
C1_AxisIsUnion ==
    (Aggregated /\ MONTHLY_INVESTMENT > 0 /\ PositivePrices) =>
        combined_df.index =
            SortedSeq(UNION {OwnDates(n) : n \in {m \in Range(selected_tickers) : NonEmpty(m)}})

\* C1 (amended): the axis of the aggregated portfolio is exactly the timestamps
\* of the first non-empty result in caller order; a date at which only later
\* instruments have a point is not on the axis.
C1_AxisIsFirstResult ==
    Aggregated =>
        combined_df.index = RowDates(Result(FirstNonEmpty(selected_tickers)).rows)

C1_Witness ==
    /\ Aggregated
    /\ \E n \in Included : \E d \in OwnDates(n) : d \notin Range(combined_df.index)

\* C2 (as claimed): a point whose price is not strictly positive is dropped:
\* the result of a simulated ticker has one row per strictly positive price,
\* and the simulation goes on past such a point (stated for the runs with a
\* positive contribution).
C2_NonPositiveDropped ==
    MONTHLY_INVESTMENT > 0 =>
        /\ status # "exception"
        /\ lastSym # "" => Len(df) = NumPositive(lastSym)

\* C3 (as claimed): with a positive contribution c the k-th emitted point has
\* totalInvested = c * k, and with n >= 1 positive prices the last point has
\* totalInvested = c * n.
C3_InvestedIsCTimesN ==
    (lastSym # "" /\ MONTHLY_INVESTMENT > 0) =>
        /\ \A k \in DOMAIN df : df[k].TotalInvested = MONTHLY_INVESTMENT * k
        /\ NumPositive(lastSym) >= 1 =>
              /\ df # <<>>
              /\ Last(df).TotalInvested = MONTHLY_INVESTMENT * NumPositive(lastSym)

\* C4 (as claimed): every permutation of the caller order yields the same
\* timestamps and the same value series for each included instrument (stated
\* for the runs with a positive contribution and positive prices, where it
\* already fails).
C4_OrderInsensitive ==
    (Aggregated /\ MONTHLY_INVESTMENT > 0 /\ PositivePrices) =>
        \A p \in Perms(selected_tickers) :
            LET g == Aggregate(p)
            IN  /\ g.index = combined_df.index
                /\ Range(g.columns) = Range(combined_df.columns)
                /\ \A n \in Included : g.col[n] = combined_df.col[n]

\* C4 (amended): every permutation of the caller order that keeps the same
\* first non-empty instrument yields the same timestamps and the same series
\* (values and Total Invested) for each included instrument.
C4_OrderInsensitiveAfterFirst ==
    Aggregated =>
        \A p \in Perms(selected_tickers) :
            FirstNonEmpty(p) = FirstNonEmpty(selected_tickers) =>
                LET g == Aggregate(p)
                IN  /\ g.index = combined_df.index
                    /\ Range(g.columns) = Range(combined_df.columns)
                    /\ g.col = combined_df.col

C4_Witness ==
    /\ Aggregated
    /\ Cardinality(Included) >= 3
    /\ \E a, b \in Included :
          /\ a # FirstNonEmpty(selected_tickers)
          /\ b # FirstNonEmpty(selected_tickers)
          /\ combined_df.col[a] # combined_df.col[b]

\* C5: once a ticker with a non-empty result has been processed, Total Invested
\* is the invested series of the first such ticker in caller order, in every
\* later state of the run: earlier empty results are passed over and no later
\* ticker replaces it.
C5_BaselineFromFirstNonEmpty ==
    TI \in Range(combined_df.columns) =>
        LET base == InvestedSeries(Result(FirstNonEmpty(selected_tickers)).rows)
        IN  /\ combined_df.index = base.index
            /\ combined_df.col[TI] = base.val

C5_Witness ==
    /\ Aggregated
    /\ IsEmpty(selected_tickers[1])
    /\ \E n \in Included :
          /\ n # FirstNonEmpty(selected_tickers)
          /\ Reindex(InvestedSeries(Result(n).rows).val, OwnDates(n), combined_df.index)
                # combined_df.col[TI]

\* C6: after the forward-fill, an included instrument has no value at any axis
\* timestamp earlier than its first own simulation point.
C6_NoValueBeforeFirstPoint ==
    Aggregated =>
        \A n \in Included : \A d \in Range(combined_df.index) :
            (\A o \in OwnDates(n) : d < o) => IsNaN(combined_df.col[n][d])

C6_Witness ==
    /\ Aggregated
    /\ \E n \in Included : \E d \in Range(combined_df.index) :
          /\ \A o \in OwnDates(n) : d < o
          /\ \E e \in Range(combined_df.index) : ~IsNaN(combined_df.col[n][e])

\* No price the provider reports is negative.
NoNegativePrice ==
    \A n \in DOMAIN market : \A m \in DOMAIN market[n] :
        IsNaN(market[n][m]) \/ market[n][m][1] >= 0

\* C7 (as claimed): when a run with a positive contribution and no negative
\* price has ended and has reported its instruments with an empty result as
\* skipped, those are left out of the portfolio and of the metrics, and every
\* instrument with a non-empty result is aggregated and summarized.
C7_EmptySkippedOthersKept ==
    (/\ pc = "done"
     /\ MONTHLY_INVESTMENT > 0
     /\ NoNegativePrice
     /\ warnings # {}
     /\ \A e \in Range(selected_tickers) : IsEmpty(e) => e \in warnings) =>
        \A n \in Range(selected_tickers) :
            /\ IsEmpty(n) =>
                  /\ n \notin Range(combined_df.columns)
                  /\ n \notin DOMAIN metrics
            /\ NonEmpty(n) =>
                  /\ n \in Range(combined_df.columns)
                  /\ n \in DOMAIN metrics

\* C8 (as claimed): when finalInvested is 0 no return percent is computed:
\* none is NaN or infinite (stated for the runs with positive prices).
C8_ZeroInvestedUndefined ==
    (Aggregated /\ final_invested = 0 /\ PositivePrices) =>
        \A n \in DOMAIN metrics : metrics[n].return_pct.kind \notin {"nan", "inf"}

\* C9: with no ticker selected the run ends on the selection warning and
\* never loads prices, buys a share or aggregates anything.
C9_EmptySelectionDoesNothing ==
    selected_tickers = <<>> =>
        /\ loads = 0
        /\ purchases = 0
        /\ combined_df = EmptyFrame
        /\ DOMAIN metrics = {}
        /\ pc \in {"start", "done"}
        /\ pc = "done" => status = "select_warning"

C9_Witness ==
    /\ selected_tickers = <<>>
    /\ pc = "done"
    /\ status = "select_warning"

\* C10 (as claimed): with a negative contribution, or an end date before the
\* start date, no share is bought and no portfolio or metric is produced.
C10_InvalidConfigRejected ==
    (MONTHLY_INVESTMENT < 0 \/ END_DATE < START_DATE) =>
        /\ purchases = 0
        /\ status # "ok"
        /\ FrameEmpty(combined_df)
        /\ DOMAIN metrics = {}

====
